---- MODULE Spec2Model ----
(***************************************************************************)
(* A model of the KYC document pipeline: the field validator, the          *)
(* identity-rule checker, the decision engine, the audit reporter and the  *)
(* five-node graph of pipeline.py that threads one state dict through      *)
(* them.                                                                   *)
(*                                                                         *)
(* Text is modelled as a sequence of pieces.  A field value is a sequence  *)
(* of one-character strings, so that the regular expressions, strip(),     *)
(* replace() and endswith() of the source are computed on characters.  A   *)
(* message is a sequence of words; 'sub in text' for a one-word sub is     *)
(* membership of that word.  Characters are ASCII letters, digits, space,  *)
(* hyphen and slash (no control characters).                               *)
(***************************************************************************)
EXTENDS Integers, Sequences, FiniteSets, TLC

VARIABLES
    pc,             \* the node the graph runs next, "END", or "raised"
    state,          \* the PipelineState dict: a function from its keys
    env,            \* os.getenv: which of the two variables are set
    excel_file,     \* the rows of the workbook at EXCEL_OUTPUT_PATH
    sheet_rows,     \* the rows appended to the Google Sheet
    kyc_call,       \* what node_kyc handed to run_kyc and what the matcher answered
    executed,       \* the nodes that have run to their return, in order
    raised_in,      \* the node an exception escaped from, or "none"
    runs            \* concurrent runs: where each is inside save_to_excel

vars == <<pc, state, env, excel_file, sheet_rows, kyc_call, executed, raised_in,
          runs>>

----------------------------------------------------------------------------
(* Characters and strings *)

Digit == {"0", "1", "2", "3", "4", "5", "6", "7", "8", "9"}

Upper == {"A", "B", "C", "D", "E", "F", "G", "H", "I", "J", "K", "L", "M",
          "N", "O", "P", "Q", "R", "S", "T", "U", "V", "W", "X", "Y", "Z"}

Lower == {"a", "b", "c", "d", "e", "f", "g", "h", "i", "j", "k", "l", "m",
          "n", "o", "p", "q", "r", "s", "t", "u", "v", "w", "x", "y", "z"}

Letter == Upper \cup Lower

Whitespace == {" "}

DigitValue(c) ==
    CASE c = "0" -> 0 [] c = "1" -> 1 [] c = "2" -> 2 [] c = "3" -> 3
      [] c = "4" -> 4 [] c = "5" -> 5 [] c = "6" -> 6 [] c = "7" -> 7
      [] c = "8" -> 8 [] c = "9" -> 9

AllIn(s, S) == \A i \in 1..Len(s) : s[i] \in S

\* str.replace(" ", "")
RemoveSpaces(s) == SelectSeq(s, LAMBDA c : c # " ")

RECURSIVE LStrip(_)
LStrip(s) == IF s # <<>> /\ Head(s) \in Whitespace THEN LStrip(Tail(s)) ELSE s

RECURSIVE RStrip(_)
RStrip(s) ==
    IF s # <<>> /\ s[Len(s)] \in Whitespace
    THEN RStrip(SubSeq(s, 1, Len(s) - 1))
    ELSE s

\* str.strip()
Strip(s) == RStrip(LStrip(s))

\* str.endswith(suffix)
EndsWith(s, suffix) ==
    /\ Len(s) >= Len(suffix)
    /\ SubSeq(s, Len(s) - Len(suffix) + 1, Len(s)) = suffix

\* sep.join(parts), parts a sequence of texts, sep a text
RECURSIVE Join(_, _)
Join(sep, parts) ==
    IF parts = <<>> THEN <<>>
    ELSE IF Len(parts) = 1 THEN parts[1]
    ELSE parts[1] \o sep \o Join(sep, Tail(parts))

\* 'word in text' for a text of words
Contains(text, word) == \E i \in 1..Len(text) : text[i] = word

----------------------------------------------------------------------------
(* JSON values of the normalizer's mapping *)

JStr(chars) == [t |-> "str", v |-> chars]
JNone == [t |-> "none"]
\* a JSON number / numeric cell, kept as its decimal digits
JInt(digits) == [t |-> "int", v |-> digits]
Absent == [t |-> "absent"]      \* the key is not in the mapping

\* str(x) of a blacklist cell: a text cell is itself, a numeric cell its digits
PyStr(x) == x.v

\* truthiness of a value: "", 0 and None are falsy
Truthy(x) ==
    CASE x.t = "str" -> x.v # <<>>
      [] x.t = "int" -> \E i \in 1..Len(x.v) : x.v[i] # "0"
      [] OTHER -> FALSE

----------------------------------------------------------------------------
(* agents/validation_agent.py *)

FieldNames == {"name", "dob", "id_number", "address"}

\* DocumentFields(**kwargs): pydantic accepts a str for a str field and
\* takes the default "" for a field that is not given; any other value is
\* a ValidationError.
DocumentFields(kwargs) ==
    IF \A k \in FieldNames : kwargs[k].t \in {"str", "absent"}
    THEN [ok |-> TRUE,
          fields |-> [k \in FieldNames |->
                        IF kwargs[k].t = "str" THEN kwargs[k].v ELSE <<>>]]
    ELSE [ok |-> FALSE]

DATE_FORMATS ==
    << [order |-> <<"Y", "m", "d">>, sep |-> "-"],
       [order |-> <<"d", "m", "Y">>, sep |-> "-"],
       [order |-> <<"d", "m", "Y">>, sep |-> "/"],
       [order |-> <<"m", "d", "Y">>, sep |-> "/"] >>

RECURSIVE Split(_, _)
Split(s, sep) ==
    IF \A i \in 1..Len(s) : s[i] # sep THEN <<s>>
    ELSE LET i == CHOOSE j \in 1..Len(s) :
                    s[j] = sep /\ \A k \in 1..(j - 1) : s[k] # sep
         IN  <<SubSeq(s, 1, i - 1)>> \o Split(SubSeq(s, i + 1, Len(s)), sep)

RECURSIVE Number(_)
Number(s) ==
    IF s = <<>> THEN 0
    ELSE 10 * Number(SubSeq(s, 1, Len(s) - 1)) + DigitValue(s[Len(s)])

\* the regular expression strptime builds for one directive
DirectiveMatches(part, d) ==
    CASE d = "Y" -> Len(part) = 4 /\ AllIn(part, Digit)
      [] d = "m" -> \/ Len(part) = 1 /\ part[1] \in Digit \ {"0"}
                    \/ Len(part) = 2 /\ AllIn(part, Digit) /\ Number(part) \in 1..12
      [] d = "d" -> \/ Len(part) = 1 /\ part[1] \in Digit \ {"0"}
                    \/ Len(part) = 2 /\ AllIn(part, Digit) /\ Number(part) \in 1..31
                    \/ Len(part) = 2 /\ part[1] = " " /\ part[2] \in Digit \ {"0"}

IsLeap(y) == (y % 4 = 0 /\ y % 100 # 0) \/ y % 400 = 0

DaysInMonth(y, m) ==
    IF m = 2 THEN (IF IsLeap(y) THEN 29 ELSE 28)
    ELSE IF m \in {4, 6, 9, 11} THEN 30 ELSE 31

\* datetime.strptime(s, fmt) returns (TRUE) or raises ValueError (FALSE)
Strptime(s, fmt) ==
    LET parts == Split(s, fmt.sep)
        At(d) == LET i == CHOOSE j \in 1..3 : fmt.order[j] = d
                 IN  Number(SelectSeq(parts[i], LAMBDA c : c \in Digit))
    IN  /\ Len(parts) = 3
        /\ \A i \in 1..3 : DirectiveMatches(parts[i], fmt.order[i])
        /\ At("Y") >= 1
        /\ At("d") <= DaysInMonth(At("Y"), At("m"))

MsgMissing(field_name) == <<field_name, "is", "missing">>

MsgDobFormat ==
    <<"dob", "has", "invalid", "format;", "expected", "YYYY-MM-DD", "or",
      "common", "variants">>

MsgIdFormat ==
    <<"id_number", "format", "invalid;", "expected", "alphanumeric", "with",
      "optional", "hyphen,", "length>=5">>

MsgSchema == <<"schema", "validation", "error:", "ValidationError">>

validate_date(dob, issues) ==
    IF dob = <<>> THEN Append(issues, MsgMissing("dob"))
    ELSE IF \E i \in 1..Len(DATE_FORMATS) : Strptime(dob, DATE_FORMATS[i])
    THEN issues
    ELSE Append(issues, MsgDobFormat)

\* ^[A-Za-z0-9\-]{5,}$
ID_REGEX(s) == Len(s) >= 5 /\ AllIn(s, Letter \cup Digit \cup {"-"})

validate_id_number(id_number, issues) ==
    IF id_number = <<>> THEN Append(issues, MsgMissing("id_number"))
    ELSE IF ~ID_REGEX(id_number) THEN Append(issues, MsgIdFormat)
    ELSE issues

validate_non_empty(field_name, value, issues) ==
    IF Strip(value) = <<>> THEN Append(issues, MsgMissing(field_name))
    ELSE issues

ValidationResult(is_valid, issues) == [is_valid |-> is_valid, issues |-> issues]

\* a slip: the flag is not recomputed from the final issues list
validation_result_stale(issues) == ValidationResult(TRUE, issues)

\* lines 75-76: is_valid = len(issues) == 0
validation_result(issues) == ValidationResult(Len(issues) = 0, issues)

\* a slip: the checks stop at the first field that has an issue
validate_document_fields_first(data) ==
    LET strict   == DocumentFields(data)
        fallback == DocumentFields(
                        [k \in FieldNames |->
                            IF data[k].t = "absent" THEN JStr(<<>>) ELSE data[k]])
        issues0  == IF strict.ok THEN <<>> ELSE <<MsgSchema>>
        parsed   == IF strict.ok THEN strict.fields ELSE fallback.fields
        issues1  == validate_non_empty("name", parsed.name, issues0)
        issues2  == IF issues1 # issues0 THEN issues1
                    ELSE validate_date(parsed.dob, issues1)
        issues3  == IF issues2 # issues0 THEN issues2
                    ELSE validate_id_number(parsed.id_number, issues2)
        issues4  == IF issues3 # issues0 THEN issues3
                    ELSE validate_non_empty("address", parsed.address, issues3)
    IN  IF ~strict.ok /\ ~fallback.ok
        THEN [raises |-> TRUE]
        ELSE [raises |-> FALSE,
              parsed |-> parsed,
              validation |-> validation_result(issues4)]

\* The result of the call: it returns (parsed, validation) or it raises.
validate_document_fields(data) ==
    LET strict   == DocumentFields(data)
        \* {k: data.get(k, "") for k in model_fields}: the values that made
        \* the strict parse fail are passed again
        fallback == DocumentFields(
                        [k \in FieldNames |->
                            IF data[k].t = "absent" THEN JStr(<<>>) ELSE data[k]])
        issues0  == IF strict.ok THEN <<>> ELSE <<MsgSchema>>
        parsed   == IF strict.ok THEN strict.fields ELSE fallback.fields
        issues1  == validate_non_empty("name", parsed.name, issues0)
        issues2  == validate_date(parsed.dob, issues1)
        issues3  == validate_id_number(parsed.id_number, issues2)
        issues4  == validate_non_empty("address", parsed.address, issues3)
    IN  IF ~strict.ok /\ ~fallback.ok
        THEN [raises |-> TRUE]
        ELSE [raises |-> FALSE,
              parsed |-> parsed,
              validation |-> validation_result(issues4)]

----------------------------------------------------------------------------
(* agents/kyc_agent.py *)

\* ^\d{12}$
AADHAAR_RE(s) == Len(s) = 12 /\ AllIn(s, Digit)

\* ^[A-Z]{5}\d{4}[A-Z]{1}$ with re.IGNORECASE
PAN_RE(s) ==
    /\ Len(s) = 10
    /\ \A i \in 1..5 : s[i] \in Letter
    /\ \A i \in 6..9 : s[i] \in Digit
    /\ s[10] \in Letter

\* ^[0-9A-Z]{15}$ with re.IGNORECASE
GST_RE(s) == Len(s) = 15 /\ AllIn(s, Digit \cup Letter)

KycDecision == [APPROVED |-> "verified", PENDING |-> "pending_review",
                REJECTED |-> "failed"]

MsgKycFormat ==
    <<"id_number", "does", "not", "match", "Aadhaar(12d)/GST(15)/PAN(10)",
      "formats">>

MsgBlacklisted ==
    <<"id_number", "is", "blacklisted", "in", "reference", "data">>

MsgFaceFailed == <<"face", "match", "failed">>

\* a slip: the blacklist cells are compared without strip()
check_id_rules_nostrip(fields, reference_rules) ==
    LET id_num == RemoveSpaces(fields.id_number)
        fmt    == IF ~AADHAAR_RE(id_num) /\ ~GST_RE(id_num) /\ ~PAN_RE(id_num)
                  THEN <<MsgKycFormat>> ELSE <<>>
        blacklisted ==
            {PyStr(reference_rules[i].blacklist_id) :
                i \in {j \in 1..Len(reference_rules) :
                          Truthy(reference_rules[j].blacklist_id)}}
    IN  IF reference_rules # <<>> /\ id_num \in blacklisted
        THEN Append(fmt, MsgBlacklisted)
        ELSE fmt

\* a slip: 'or' for 'and' between the three format tests
check_id_rules_or(fields, reference_rules) ==
    LET id_num == RemoveSpaces(fields.id_number)
        fmt    == IF ~AADHAAR_RE(id_num) \/ ~GST_RE(id_num) \/ ~PAN_RE(id_num)
                  THEN <<MsgKycFormat>> ELSE <<>>
        blacklisted ==
            {Strip(PyStr(reference_rules[i].blacklist_id)) :
                i \in {j \in 1..Len(reference_rules) :
                          Truthy(reference_rules[j].blacklist_id)}}
    IN  IF reference_rules # <<>> /\ id_num \in blacklisted
        THEN Append(fmt, MsgBlacklisted)
        ELSE fmt

check_id_rules(fields, reference_rules) ==
    LET id_num == RemoveSpaces(fields.id_number)
        fmt    == IF ~AADHAAR_RE(id_num) /\ ~GST_RE(id_num) /\ ~PAN_RE(id_num)
                  THEN <<MsgKycFormat>> ELSE <<>>
        blacklisted ==
            {Strip(PyStr(reference_rules[i].blacklist_id)) :
                i \in {j \in 1..Len(reference_rules) :
                          Truthy(reference_rules[j].blacklist_id)}}
    IN  IF reference_rules # <<>> /\ id_num \in blacklisted
        THEN Append(fmt, MsgBlacklisted)
        ELSE fmt

mock_api_check(fields) ==
    LET id_num == Strip(fields.id_number)
    IN  IF EndsWith(id_num, <<"0", "0", "0", "0">>)
        THEN [ok |-> FALSE, note |-> <<"mock", "api:", "suspicious", "pattern">>]
        ELSE [ok |-> TRUE, note |-> <<"mock", "api:", "ok">>]

\* cv is what OpenCV does with the two files: both decode and the histogram
\* correlation is cv.score thousandths, one does not decode, or a call raises
optional_face_match(id_image_path, selfie_image_path, cv) ==
    IF ~Truthy(id_image_path) \/ ~Truthy(selfie_image_path)
    THEN [match |-> "None", note |-> <<"no", "face", "images", "provided">>]
    ELSE CASE cv.kind = "raises" ->
                [match |-> "None",
                 note |-> <<"face", "match", "error:", "Exception">>]
           [] cv.kind = "unreadable" ->
                [match |-> "None", note |-> <<"face", "images", "unreadable">>]
           [] cv.kind = "score" ->
                [match |-> IF cv.score > 900 THEN "True" ELSE "False",
                 note |-> <<"face_match_score=", ToString(cv.score)>>]

\* a slip: one blacklist issue is enough to reject
decision_policy_any(issues) ==
    IF issues # <<>>
    THEN IF \E i \in 1..Len(issues) : Contains(issues[i], "blacklisted")
         THEN KycDecision.REJECTED
         ELSE KycDecision.PENDING
    ELSE KycDecision.APPROVED

\* lines 74-78: the decision from the accumulated issues
decision_policy(issues) ==
    IF issues # <<>>
    THEN IF \E i \in 1..Len(issues) : ~Contains(issues[i], "blacklisted")
         THEN KycDecision.PENDING
         ELSE KycDecision.REJECTED
    ELSE KycDecision.APPROVED

\* a slip: 'if not match' for 'if match is False'
run_kyc_falsy(fields, reference_rules, id_face_path, selfie_path, cv) ==
    LET issues1 == check_id_rules(fields, reference_rules)
        api     == mock_api_check(fields)
        issues2 == IF ~api.ok
                   THEN Append(issues1,
                               <<"external", "verification", "failed:">> \o api.note)
                   ELSE issues1
        fm      == optional_face_match(id_face_path, selfie_path, cv)
        issues3 == IF fm.match # "True" THEN Append(issues2, MsgFaceFailed)
                   ELSE issues2
    IN  [decision |-> decision_policy(issues3),
         issues |-> issues3,
         meta |-> [external_note |-> api.note, face_match_note |-> fm.note]]

run_kyc(fields, reference_rules, id_face_path, selfie_path, cv) ==
    LET issues1 == check_id_rules(fields, reference_rules)
        api     == mock_api_check(fields)
        issues2 == IF ~api.ok
                   THEN Append(issues1,
                               <<"external", "verification", "failed:">> \o api.note)
                   ELSE issues1
        fm      == optional_face_match(id_face_path, selfie_path, cv)
        issues3 == IF fm.match = "False" THEN Append(issues2, MsgFaceFailed)
                   ELSE issues2
    IN  [decision |-> decision_policy(issues3),
         issues |-> issues3,
         meta |-> [external_note |-> api.note, face_match_note |-> fm.note]]

----------------------------------------------------------------------------
(* agents/audit_agent.py *)

OrNA(value) == IF value # <<>> THEN value ELSE <<"N/A">>

\* a slip: the loop over validation.issues starts at the second issue
generate_audit_report_skip(data, validation) ==
    IF validation.is_valid
    THEN <<"Valid document. All required fields present and correctly formatted. ",
           "Name: ">> \o OrNA(data.name) \o <<", DOB: ">> \o OrNA(data.dob)
         \o <<", ID: ">> \o OrNA(data.id_number) \o <<".">>
    ELSE Join(<<"\n">>,
              <<<<"Document has issues:">>>>
              \o [i \in 1..(Len(validation.issues) - 1) |->
                    <<"- ">> \o validation.issues[i + 1]])

generate_audit_report(data, validation) ==
    IF validation.is_valid
    THEN <<"Valid document. All required fields present and correctly formatted. ",
           "Name: ">> \o OrNA(data.name) \o <<", DOB: ">> \o OrNA(data.dob)
         \o <<", ID: ">> \o OrNA(data.id_number) \o <<".">>
    ELSE Join(<<"\n">>,
              <<<<"Document has issues:">>>>
              \o [i \in 1..Len(validation.issues) |->
                    <<"- ">> \o validation.issues[i]])

----------------------------------------------------------------------------
(* Inputs: what the collaborators can hand to the pipeline *)

MaxRules == 1

C(s) == JStr(s)

NameSamples == {C(<<"J", "a", "n", "e", " ", "D", "o", "e">>), C(<<>>), JNone}

DobSamples ==
    {C(<<"1", "9", "9", "0", "-", "0", "5", "-", "1", "2">>),
     C(<<"1", "9", "9", "0", "/", "0", "5", "/", "1", "2">>),
     C(<<"0", "5", "/", "3", "1", "/", "1", "9", "9", "0">>),
     C(<<>>)}

IdSamples ==
    {C(<<"A", "B", "C", "D", "E", "1", "2", "3", "4", "F">>),
     C(<<"a", "b", "c", "d", "e", "1", "2", "3", "4", "f">>),
     C(<<"1", "2", "3", "4", "5", "6", "7", "8", "9", "0", "1", "2">>),
     C(<<"1", "2", "3", "4", " ", "5", "6", "7", "8", " ", "9", "0", "1", "2">>),
     C(<<"1", "2", "3", "4", "5", "6", "7", "8", "0", "0", "0", "0">>),
     C(<<"2", "2", "A", "A", "A", "A", "A", "0", "0", "0", "0", "A", "1", "Z", "5">>),
     C(<<"A", "B", "-", "1", "2">>),
     C(<<>>),
     JInt(<<"1", "2", "3", "4", "5", "6", "7", "8", "9", "0", "1", "2">>),
     Absent}

AddressSamples ==
    {C(<<"2", "2", "1", "B", " ", "B", "a", "k", "e", "r">>), C(<<" ">>), C(<<>>)}

\* the mapping GeminiNormalizer.normalize returns
StructuredSamples ==
    [name : NameSamples, dob : DobSamples, id_number : IdSamples,
     address : AddressSamples]

\* a cell of the reference sheet's blacklist_id column
BlacklistCellSamples ==
    {C(<<" ", "A", "B", "C", "D", "E", "1", "2", "3", "4", "F", " ">>),
     JInt(<<"1", "2", "3", "4", "5", "6", "7", "8", "9", "0", "1", "2">>),
     C(<<>>)}

\* ws.get_all_records(): at most MaxRules rows
RuleSnapshots ==
    UNION {[1..n -> [blacklist_id : BlacklistCellSamples]] : n \in 0..MaxRules}

ImagePath == C(<<"d", "o", "c", ".", "p", "n", "g">>)
FacePath  == C(<<"f", "a", "c", "e", ".", "p", "n", "g">>)

\* (id_face_path, selfie_path) given to run_pipeline
FacePathSamples == {<<JNone, JNone>>, <<FacePath, JNone>>, <<FacePath, FacePath>>}

\* the histogram correlation, in thousandths
ScoreSamples == {950, 900}

CvOutcomes ==
    {[kind |-> "raises", score |-> 0], [kind |-> "unreadable", score |-> 0]}
    \cup {[kind |-> "score", score |-> sc] : sc \in ScoreSamples}

\* the normalizer's reply when there is nothing to read: every field ""
EmptyReply == [k \in {"name", "dob", "id_number", "address"} |-> C(<<>>)]

\* (ocr_extract's text, the mapping normalize returns for it)
DocumentSamples ==
    {<<<<>>, EmptyReply>>}
    \cup {<<<<"raw", "text">>, r>> : r \in StructuredSamples}

\* the outcomes of a call that is made only if `called`
Outcomes(called) == IF called THEN BOOLEAN ELSE {TRUE}

----------------------------------------------------------------------------
(* pipeline.py *)

Get(d, k, default) == IF k \in DOMAIN d THEN d[k] ELSE default

Put(d, k, v) == [x \in DOMAIN d \cup {k} |-> IF x = k THEN v ELSE d[x]]

\* os.path.exists(file_path) is false
NoFile == [exists |-> FALSE, rows |-> <<>>]

\* integrations/sheets_excel.py: the workbook after save_to_excel(data, path)
save_to_excel(data, file) ==
    IF ~file.exists
    THEN [exists |-> TRUE, rows |-> <<data>>]
    ELSE [exists |-> TRUE, rows |-> Append(file.rows, data)]

EmptyMapping == [k \in FieldNames |-> Absent]

NoCall == [called |-> FALSE, reference_rules |-> <<>>,
           fm |-> [match |-> "None", note |-> <<>>], read |-> "skipped"]

Init ==
    /\ pc = "document"
    /\ \E fp \in FacePathSamples :
          state = [image_path |-> ImagePath, id_face_path |-> fp[1],
                   selfie_path |-> fp[2]]
    /\ env \in [EXCEL_OUTPUT_PATH : BOOLEAN, GOOGLE_SHEETS_ID : BOOLEAN]
    /\ excel_file = NoFile
    /\ sheet_rows = <<>>
    /\ kyc_call = NoCall
    /\ executed = <<>>
    /\ raised_in = "none"
    /\ runs = <<>>

\* an exception leaves the node: app.invoke and run_pipeline propagate it
Raise(node, st, xl, sh) ==
    /\ pc' = "raised"
    /\ raised_in' = node
    /\ state' = st
    /\ excel_file' = xl
    /\ sheet_rows' = sh
    /\ UNCHANGED <<env, executed, runs>>

\* the node returns and the graph follows its one outgoing edge
Return(node, next, st, xl, sh) ==
    /\ pc' = next
    /\ executed' = Append(executed, node)
    /\ state' = st
    /\ excel_file' = xl
    /\ sheet_rows' = sh
    /\ UNCHANGED <<env, raised_in, runs>>

\* the two saves that end node_document_agent and node_kyc
SaveRow(node, next, st, row, excel_ok, sheet_ok) ==
    LET xl == IF env.EXCEL_OUTPUT_PATH THEN save_to_excel(row, excel_file)
              ELSE excel_file
        sh == IF env.GOOGLE_SHEETS_ID THEN Append(sheet_rows, row)
              ELSE sheet_rows
    IN  IF env.EXCEL_OUTPUT_PATH /\ ~excel_ok
        THEN Raise(node, st, excel_file, sheet_rows)
        ELSE IF env.GOOGLE_SHEETS_ID /\ ~sheet_ok
        THEN Raise(node, st, xl, sheet_rows)
        ELSE Return(node, next, st, xl, sh)

node_document_agent ==
    /\ pc = "document"
    /\ \E doc \in DocumentSamples, ctor_ok \in BOOLEAN,
          normalize_ok \in BOOLEAN,
          excel_ok \in Outcomes(env.EXCEL_OUTPUT_PATH),
          sheet_ok \in Outcomes(env.GOOGLE_SHEETS_ID) :
          LET image_path == Get(state, "image_path", C(<<>>))
              text  == doc[1]
              reply == doc[2]
              s1 == Put(state, "ocr_text", text)
          IN  IF ~ctor_ok \/ ~normalize_ok
              THEN Raise("document", s1, excel_file, sheet_rows)
              ELSE SaveRow("document", "validate",
                           Put(s1, "structured_json", reply),
                           [fields |-> reply, source_image |-> image_path],
                           excel_ok, sheet_ok)
    /\ UNCHANGED kyc_call

node_validate ==
    /\ pc = "validate"
    /\ LET structured == Get(state, "structured_json", EmptyMapping)
           r == validate_document_fields(structured)
       IN  IF r.raises
           THEN Raise("validate", state, excel_file, sheet_rows)
           ELSE Return("validate", "kyc",
                       Put(Put(state, "parsed", r.parsed),
                           "validation", r.validation),
                       excel_file, sheet_rows)
    /\ UNCHANGED kyc_call

node_kyc ==
    /\ pc = "kyc"
    /\ \E read_ok \in Outcomes(env.GOOGLE_SHEETS_ID),
          records \in (IF env.GOOGLE_SHEETS_ID THEN RuleSnapshots ELSE {<<>>}),
          cv \in (IF Truthy(state["id_face_path"]) /\ Truthy(state["selfie_path"])
                  THEN CvOutcomes ELSE {[kind |-> "unreadable", score |-> 0]}),
          excel_ok \in Outcomes(env.EXCEL_OUTPUT_PATH),
          sheet_ok \in Outcomes(env.GOOGLE_SHEETS_ID) :
          LET parsed == state["parsed"]
              reference_rules ==
                  IF env.GOOGLE_SHEETS_ID /\ read_ok THEN records ELSE <<>>
              id_face_path == Get(state, "id_face_path", JNone)
              selfie_path  == Get(state, "selfie_path", JNone)
              k  == run_kyc(parsed, reference_rules, id_face_path, selfie_path, cv)
              s3 == Put(Put(Put(state, "kyc_decision", k.decision),
                            "kyc_issues", k.issues), "kyc_meta", k.meta)
              log_row == [id_number |-> parsed.id_number, name |-> parsed.name,
                          kyc_decision |-> k.decision,
                          kyc_issues |-> Join(<<"; ">>, k.issues)]
          IN  /\ kyc_call' =
                    [called |-> TRUE, reference_rules |-> reference_rules,
                     fm |-> optional_face_match(id_face_path, selfie_path, cv),
                     read |-> IF ~env.GOOGLE_SHEETS_ID THEN "skipped"
                              ELSE IF read_ok THEN "ok" ELSE "failed"]
              /\ SaveRow("kyc", "audit", s3, log_row, excel_ok, sheet_ok)

node_audit ==
    /\ pc = "audit"
    /\ LET parsed == state["parsed"]
           validation == state["validation"]
           kyc_decision == Get(state, "kyc_decision", "")
           kyc_issues == Get(state, "kyc_issues", <<>>)
           report0 == generate_audit_report(parsed, validation)
           report1 == IF kyc_decision # ""
                      THEN report0 \o <<"\n", "KYC Decision: ", kyc_decision>>
                      ELSE report0
           report2 == IF kyc_decision # "" /\ kyc_issues # <<>>
                      THEN report1 \o <<"\n", "KYC Issues: ">>
                                   \o Join(<<"; ">>, kyc_issues)
                      ELSE report1
       IN  Return("audit", "human_review", Put(state, "audit_report", report2),
                  excel_file, sheet_rows)
    /\ UNCHANGED kyc_call

\* a slip: every decision but Approved is routed to review
review_flag_not_approved(decision) == decision # KycDecision.APPROVED

\* lines 105-109: the value node_human_review stores
review_flag(decision) == decision = KycDecision.PENDING

node_human_review ==
    /\ pc = "human_review"
    /\ LET decision == Get(state, "kyc_decision", "")
       IN  Return("human_review", "END",
                  Put(state, "human_review_required", review_flag(decision)),
                  excel_file, sheet_rows)
    /\ UNCHANGED kyc_call

Next ==
    \/ node_document_agent
    \/ node_validate
    \/ node_kyc
    \/ node_audit
    \/ node_human_review

Spec == Init /\ [][Next]_vars

----------------------------------------------------------------------------
(* Concurrent runs that log to the same EXCEL_OUTPUT_PATH.  Each run saves  *)
(* two rows, the normalized fields (node_document_agent) and the KYC log    *)
(* row (node_kyc); save_to_excel is three file operations: the existence    *)
(* test, the read of the sheet, the write of the whole workbook.            *)

MaxRuns == 2

RunIds == 1..MaxRuns

\* the two rows run r logs, in the order it logs them
RowsOf(r) == <<[run |-> r, kind |-> "fields"], [run |-> r, kind |-> "kyc"]>>

InitConcurrent ==
    /\ pc = "concurrent"
    /\ state = [image_path |-> ImagePath]
    /\ env = [EXCEL_OUTPUT_PATH |-> TRUE, GOOGLE_SHEETS_ID |-> FALSE]
    /\ excel_file \in {NoFile,
                       [exists |-> TRUE, rows |-> <<[run |-> 0, kind |-> "fields"]>>]}
    /\ sheet_rows = <<>>
    /\ kyc_call = NoCall
    /\ executed = <<>>
    /\ raised_in = "none"
    /\ runs = [r \in RunIds |->
                [at |-> "outside", todo |-> RowsOf(r), df |-> <<>>,
                 existing |-> <<>>]]

Step(r, at, todo, df, existing) ==
    /\ runs' = [runs EXCEPT ![r] = [at |-> at, todo |-> todo, df |-> df,
                                    existing |-> existing]]
    /\ UNCHANGED <<pc, state, env, sheet_rows, kyc_call, executed, raised_in>>

\* lines 34-35: df = pd.DataFrame([data]); if not os.path.exists(file_path)
excel_exists(r) ==
    /\ runs[r].at = "outside"
    /\ runs[r].todo # <<>>
    /\ Step(r, IF excel_file.exists THEN "read" ELSE "create",
            Tail(runs[r].todo), <<Head(runs[r].todo)>>, <<>>)
    /\ UNCHANGED excel_file

\* lines 36-38: the workbook is created with the one row
excel_create(r) ==
    /\ runs[r].at = "create"
    /\ excel_file' = [exists |-> TRUE, rows |-> runs[r].df]
    /\ Step(r, "outside", runs[r].todo, <<>>, <<>>)

\* line 41: existing = pd.read_excel(file_path, sheet_name="data")
excel_read(r) ==
    /\ runs[r].at = "read"
    /\ Step(r, "write", runs[r].todo, runs[r].df, excel_file.rows)
    /\ UNCHANGED excel_file

\* lines 42-44: combined = pd.concat([existing, df]); the workbook is rewritten
excel_write(r) ==
    /\ runs[r].at = "write"
    /\ excel_file' = [exists |-> TRUE, rows |-> runs[r].existing \o runs[r].df]
    /\ Step(r, "outside", runs[r].todo, <<>>, <<>>)

NextConcurrent ==
    \E r \in RunIds :
        \/ excel_exists(r)
        \/ excel_create(r)
        \/ excel_read(r)
        \/ excel_write(r)

SpecConcurrent == InitConcurrent /\ [][NextConcurrent]_vars

----------------------------------------------------------------------------
(* Observations of a run *)

Has(k) == k \in DOMAIN state

Ended == pc \in {"END", "raised"}

Stages == <<"document", "validate", "kyc", "audit", "human_review">>

HasBlacklisted(issue) == Contains(issue, "blacklisted")

Count(seq, x) == Cardinality({i \in 1..Len(seq) : seq[i] = x})

\* the id_number run_kyc saw, spaces removed
SeenId == RemoveSpaces(state["parsed"].id_number)

WellFormedId(s) == AADHAAR_RE(s) \/ GST_RE(s) \/ PAN_RE(s)

\* s is one of the non-empty cells of the snapshot run_kyc was given
InSnapshot(s) ==
    \E i \in 1..Len(kyc_call.reference_rules) :
        LET cell == kyc_call.reference_rules[i].blacklist_id
        IN  Truthy(cell) /\ Strip(PyStr(cell)) = s

----------------------------------------------------------------------------
(* Claims *)

\* C1: the decision run_kyc returned is determined by its issues list
\* alone: 'verified' iff the list is empty, 'pending_review' iff it is
\* non-empty and some issue lacks "blacklisted", 'failed' iff it is
\* non-empty and every issue contains "blacklisted".
C1_DecisionFromIssues ==
    Has("kyc_decision") =>
        LET d == state["kyc_decision"]
            issues == state["kyc_issues"]
            some_other == \E i \in 1..Len(issues) : ~HasBlacklisted(issues[i])
        IN  /\ d \in {"verified", "pending_review", "failed"}
            /\ (d = "verified") <=> (issues = <<>>)
            /\ (d = "pending_review") <=> (issues # <<>> /\ some_other)
            /\ (d = "failed") <=> (issues # <<>> /\ ~some_other)

\* Scenario C: a blacklist issue alone, decision 'failed'
C1_Witness ==
    /\ Has("kyc_decision")
    /\ state["kyc_issues"] = <<MsgBlacklisted>>
    /\ state["kyc_decision"] = "failed"

\* Scenario D: dob missing, a well-formed id_number that is in the
\* reference blacklist, the gateway ok, no images
ScenarioD ==
    /\ kyc_call.called
    /\ state["parsed"].dob = <<>>
    /\ WellFormedId(SeenId)
    /\ InSnapshot(SeenId)
    /\ ~EndsWith(Strip(state["parsed"].id_number), <<"0", "0", "0", "0">>)
    /\ ~Truthy(state["id_face_path"]) /\ ~Truthy(state["selfie_path"])

C3_AsStated ==
    Ended =>
        /\ pc = "END"
        /\ Has("kyc_decision") /\ Has("audit_report")
        /\ Has("human_review_required")

\* C4 as stated: validate_document_fields never raises; a strict-parse
\* failure becomes a first issue 'schema validation error' and the parsed
\* fields and a ValidationResult are returned.
C4_AsStated ==
    /\ raised_in # "validate"
    /\ (Has("validation") /\
          \E k \in FieldNames : state["structured_json"][k].t \in {"none", "int"})
        => (state["validation"].issues # <<>>
            /\ state["validation"].issues[1] = MsgSchema)

\* C5: the stored ValidationResult has is_valid = (issues is empty), from
\* node_validate on through every later stage.
C5_IsValidIffNoIssues ==
    Has("validation") =>
        (state["validation"].is_valid <=> state["validation"].issues = <<>>)

C5_Witness ==
    /\ pc = "END"
    /\ ~state["validation"].is_valid
    /\ Len(state["validation"].issues) >= 2

NoImages ==
    run_kyc(state["parsed"], kyc_call.reference_rules, JNone, JNone,
            [kind |-> "unreadable", score |-> 0])

\* C7: a biometric result of None adds no issue and leaves the decision as
\* it is without images; False adds exactly 'face match failed'; True adds
\* none; the two notes are stored in the metadata in every case.
C7_FaceMatch ==
    kyc_call.called =>
        LET issues == state["kyc_issues"]
            match  == kyc_call.fm.match
        IN  /\ match \in {"None", "True"} =>
                  /\ issues = NoImages.issues
                  /\ state["kyc_decision"] = NoImages.decision
            /\ match = "False" => issues = Append(NoImages.issues, MsgFaceFailed)
            /\ Count(issues, MsgFaceFailed) = (IF match = "False" THEN 1 ELSE 0)
            /\ state["kyc_meta"].face_match_note = kyc_call.fm.note
            /\ state["kyc_meta"].external_note
                  \in {<<"mock", "api:", "ok">>,
                       <<"mock", "api:", "suspicious", "pattern">>}
            /\ state["kyc_meta"].external_note = <<"mock", "api:", "ok">>
                  <=> ~EndsWith(Strip(state["parsed"].id_number),
                               <<"0", "0", "0", "0">>)

\* the matcher raised inside, and the document is approved all the same
C7_Witness ==
    /\ kyc_call.called
    /\ kyc_call.fm.match = "None"
    /\ kyc_call.fm.note = <<"face", "match", "error:", "Exception">>
    /\ state["kyc_decision"] = "verified"

\* C8 as stated: every run executes the five stages once each, in the
\* order document, validate, kyc, audit, human_review, and then reaches END.
C8_AsStated == Ended => (pc = "END" /\ executed = Stages)

\* C9: at the end of a completed run human_review_required is set, and it
\* is true iff the stored decision is 'pending_review'.
C9_ReviewFlag ==
    pc = "END" =>
        /\ Has("human_review_required")
        /\ state["human_review_required"] \in BOOLEAN
        /\ state["human_review_required"]
              <=> (state["kyc_decision"] = "pending_review")

C9_Witness ==
    /\ pc = "END"
    /\ state["kyc_decision"] = "failed"
    /\ ~state["human_review_required"]

\* one "\n- <issue>" line per issue, in order
RECURSIVE IssueLines(_)
IssueLines(issues) ==
    IF issues = <<>> THEN <<>>
    ELSE <<"\n", "- ">> \o Head(issues) \o IssueLines(Tail(issues))

RECURSIVE SemicolonJoined(_)
SemicolonJoined(issues) ==
    IF issues = <<>> THEN <<>>
    ELSE Head(issues)
         \o (IF Tail(issues) = <<>> THEN <<>> ELSE <<"; ">>)
         \o SemicolonJoined(Tail(issues))

\* C10: the stored audit report is the validation part (the 'Valid
\* document.' sentence when is_valid, else 'Document has issues:' and one
\* '- <issue>' line per validation issue in order), then the line 'KYC
\* Decision: <decision>', then the line 'KYC Issues: <issues joined by
\* "; ">' iff the KYC issues list is non-empty.
C10_AuditReport ==
    Has("audit_report") =>
        LET v == state["validation"]
            f == state["parsed"]
            na(x) == IF x = <<>> THEN <<"N/A">> ELSE x
            part ==
                IF v.is_valid
                THEN <<"Valid document. All required fields present and correctly formatted. ">>
                     \o <<"Name: ">> \o na(f.name)
                     \o <<", DOB: ">> \o na(f.dob)
                     \o <<", ID: ">> \o na(f.id_number) \o <<".">>
                ELSE <<"Document has issues:">> \o IssueLines(v.issues)
            tail ==
                IF state["kyc_issues"] # <<>>
                THEN <<"\n", "KYC Issues: ">> \o SemicolonJoined(state["kyc_issues"])
                ELSE <<>>
        IN  state["audit_report"]
                = part \o <<"\n", "KYC Decision: ", state["kyc_decision"]>> \o tail

C10_Witness ==
    /\ pc = "END"
    /\ Len(state["validation"].issues) >= 2
    /\ Len(state["kyc_issues"]) >= 2

\* C11 as stated: the reference data is read at most once per run, and when
\* that read fails the Decide stage still completes with no blacklist issue
\* and the Audit and Route stages still run.
C11_AsStated ==
    (kyc_call.called /\ kyc_call.read = "failed") =>
        /\ kyc_call.reference_rules = <<>>
        /\ Count(state["kyc_issues"], MsgBlacklisted) = 0
        /\ raised_in # "kyc"
        /\ Ended => (pc = "END" /\ executed = Stages)

AllRunsDone ==
    \A r \in DOMAIN runs : runs[r].at = "outside" /\ runs[r].todo = <<>>

\* C12 as stated: under every interleaving of two runs that log to the same
\* workbook, every row either run wrote is still in the file once both
\* runs have finished.
C12_AsStated ==
    (pc = "concurrent" /\ AllRunsDone) =>
        \A r \in RunIds : \A i \in 1..Len(RowsOf(r)) :
            Count(excel_file.rows, RowsOf(r)[i]) = 1

\* the place of an issue's field in the order of the checks
FieldRank(issue) ==
    CASE issue[1] = "schema" -> 0
      [] issue[1] = "name" -> 1
      [] issue[1] = "dob" -> 2
      [] issue[1] = "id_number" -> 3
      [] issue[1] = "address" -> 4

IsIn(seq, x) == \E i \in 1..Len(seq) : seq[i] = x

C14_AsStated ==
    (pc = "END" /\ state["kyc_decision"] = "verified")
        => state["validation"].is_valid

LowerLetters ==
    <<"a", "b", "c", "d", "e", "f", "g", "h", "i", "j", "k", "l", "m",
      "n", "o", "p", "q", "r", "s", "t", "u", "v", "w", "x", "y", "z">>

UpperLetters ==
    <<"A", "B", "C", "D", "E", "F", "G", "H", "I", "J", "K", "L", "M",
      "N", "O", "P", "Q", "R", "S", "T", "U", "V", "W", "X", "Y", "Z">>

\* s with every lower-case letter replaced by its upper-case letter
UpperCase(s) ==
    [i \in 1..Len(s) |->
        IF s[i] \in Lower
        THEN UpperLetters[CHOOSE k \in 1..Len(LowerLetters) : LowerLetters[k] = s[i]]
        ELSE s[i]]

\* s equals, up to letter case, a non-empty stripped cell of the snapshot
InSnapshotAnyCase(s) ==
    \E i \in 1..Len(kyc_call.reference_rules) :
        LET cell == kyc_call.reference_rules[i].blacklist_id
        IN  /\ Truthy(cell)
            /\ Strip(PyStr(cell)) # <<>>
            /\ UpperCase(Strip(PyStr(cell))) = UpperCase(s)

\* C15 as stated: if the id_number, spaces removed, equals a non-empty
\* stripped blacklist_id of the snapshot, letter case aside, then the issues
\* contain 'id_number is blacklisted in reference data' and the decision is
\* not 'verified'.
C15_AsStated ==
    (kyc_call.called /\ InSnapshotAnyCase(SeenId)) =>
        /\ Count(state["kyc_issues"], MsgBlacklisted) = 1
        /\ state["kyc_decision"] # "verified"

====
